---- MODULE Spec2Model ----
(***************************************************************************)
(* A model of conor722/rust-ray-tracer: the octree spatial index           *)
(* (collision/octree.rs, collision/AABB.rs), the ray queries                *)
(* (collision/ray.rs), the reflection recursion (scene/raytracer.rs) and    *)
(* the parallel render driver (scene/engine.rs).                            *)
(*                                                                         *)
(* Coordinates are exact integers: a world coordinate c is stored as        *)
(* c * Scale, Scale a power of two large enough that every halving done by  *)
(* subdivide down to the deepest level the model follows is exact, as it    *)
(* is in f64 for these values.                                              *)
(***************************************************************************)
EXTENDS Integers, Sequences, FiniteSets, TLC

VARIABLES
    \* ---- Octree (collision/octree.rs) ----
    AABBs,                \* Vec<AABB>, index i of the code is AABBs[i+1]
    octant_AABB_map,      \* HashMap<usize, usize>
    octant_triangle_map,  \* HashMap<usize, usize>
    octant_child_map,     \* HashMap<usize, Vec<usize>>
    triangles,            \* Vec<Triangle>, index i of the code is triangles[i+1]
    triangle_aabb_map,    \* HashMap<usize, usize>
    octant_count,         \* usize
    overflow,             \* TRUE once push_at_octant recursed deeper than MaxDepth
    \* ---- Ray queries (collision/ray.rs) ----
    rayQuery,             \* the last query made of the octree and what it returned
    \* ---- Scene::draw_scene (scene/engine.rs) ----
    canvas,               \* [width, height] of the Canvas
    ap,                   \* available_parallelism(): the size of the thread pool
    faulty,               \* the pixels whose trace panics in this scene
    pc,                   \* where draw_scene is: "submit", "recv" or "done"
    submitted,            \* number of tasks handed to tp.execute so far
    jobQueue,             \* the pool's queue of tasks not yet started
    running,              \* the tasks the pool's workers are executing
    channel,              \* the mpsc channel: results sent and not yet received
    buffer,               \* Canvas.buffer, cell i of the code is buffer[i]
    ctr,                  \* the receive loop's counter
    received,             \* the pixels whose results the loop has received
    reordered,            \* TRUE once a result arrived before an earlier-submitted one
    \* ---- RayTracer::get_ray_colour (scene/raytracer.rs) ----
    rcPhase,              \* "idle", "running" or "done"
    rcStack,              \* the frames of get_ray_colour_recursive, outermost first
    rcResult,             \* what get_ray_colour returned
    rcBounces,            \* number of recursive calls made for reflections
    rcAllMirror,          \* TRUE while every ray traced so far hit a reflective surface
    rcMissed,             \* TRUE when the latest step was an octree query that found no hit
    \* ---- RayTracer::compute_lighting_intensity (scene/raytracer.rs) ----
    lights,               \* RayTracer.lights, with what each light meets at the lit point
    specular_weight,      \* material.specular_weight of the surface hit
    lighting,             \* the call made and the intensity it returned
    \* ---- AABB::intersects (collision/AABB.rs) ----
    boxQuery,             \* the last AABB call made, its arguments and what it returned
    \* ---- texture sampling in get_ray_colour_recursive (scene/raytracer.rs) ----
    sample,               \* the last texture lookup made: textures, indices, outcome
    \* ---- parse_mtl_file_lines (file_management/utils.rs) ----
    mtl                   \* the parser's accumulators, the materials emitted, lines read

octreeVars == <<AABBs, octant_AABB_map, octant_triangle_map, octant_child_map,
                triangles, triangle_aabb_map, octant_count, overflow>>

drawVars == <<canvas, ap, faulty, pc, submitted, jobQueue, running, channel, buffer,
              ctr, received, reordered>>

colourVars == <<rcPhase, rcStack, rcResult, rcBounces, rcAllMirror, rcMissed>>

lightVars == <<lights, specular_weight, lighting>>

vars == <<octreeVars, rayQuery, drawVars, colourVars, lightVars, boxQuery, sample, mtl>>

----------------------------------------------------------------------------
\* Bounds of the model.

\* Deepest push_at_octant nesting the model follows (root call = depth 0).
MaxDepth == 4

\* Number of push_triangle calls explored.
MaxTriangles == 3

\* Number of triangles in a scene that rays are cast into.
MaxSceneTriangles == 2

\* Largest canvas width and height rendered.
MaxWidth == 3
MaxHeight == 2

\* Largest thread pool.
MaxWorkers == 2

\* Largest number of lights in a scene.
MaxLights == 3

RECURSIVE Pow2(_)
Pow2(n) == IF n = 0 THEN 1 ELSE 2 * Pow2(n - 1)

\* Stored units per world unit: halving stays exact for MaxDepth+1 levels.
Scale == Pow2(MaxDepth + 1)

----------------------------------------------------------------------------
\* Vector3d and Triangle values (scene/engine.rs, scene/entities.rs).

Vec3(x, y, z) == [x |-> x, y |-> y, z |-> z]

ScaleVec(v) == Vec3(v.x * Scale, v.y * Scale, v.z * Scale)

Tri(a, b, c) == [v1 |-> ScaleVec(a), v2 |-> ScaleVec(b), v3 |-> ScaleVec(c)]

\* A right triangle with unit legs lying in the plane z = const.
TriZ(x, y, z) == Tri(Vec3(x, y, z), Vec3(x, y + 1, z), Vec3(x + 1, y, z))

\* The triangles offered to push_triangle (world coordinates).
TrianglePool ==
    { TriZ(0, 0, 0),      \* near the origin corner
      TriZ(0, 0, 1),      \* one unit behind it: separated two levels down
      TriZ(0, 0, 2),      \* on the z = 2 boundary plane: straddles octants
      TriZ(3, 3, 3),      \* far corner
      TriZ(1, 1, 1),      \* straddles the x = 2 and y = 2 planes
      TriZ(1, 1, 0),      \* its box touches the box of TriZ(0,0,0)
      TriZ(5, 0, 0),      \* outside every root box
      Tri(Vec3(0, 3, 0), Vec3(1, 3, 0), Vec3(0, 3, 1)),   \* flat in the plane y = 3
      Tri(Vec3(3, 1, 0), Vec3(3, 4, 0), Vec3(4, 1, 0)) }  \* tall: y from 1 to 4

\* The triangles of the scenes rays are cast into (world coordinates): unit
\* right triangles facing the z axis above the footprints (0,0) and (3,3).
ScenePool ==
    { TriZ(0, 0, 0), TriZ(0, 0, 1), TriZ(0, 0, 3), TriZ(3, 3, 1), TriZ(3, 3, 3) }

\* The bounds offered to Octree::new as <<min_x,max_x,min_y,max_y,min_z,max_z>>
\* (world coordinates); every one has min <= max on each axis.
RootBounds ==
    { <<0, 4, 0, 4, 0, 4>>,     \* a cube, as the loader uses
      <<0, 4, 0, 8, 0, 4>>,     \* y extent larger than z extent
      <<0, 4, 0, 4, 0, 8>>,     \* z extent twice the y extent
      <<0, 4, 0, 2, 0, 8>> }    \* z extent four times the y extent

----------------------------------------------------------------------------
\* AABB (collision/AABB.rs).

Min2(a, b) == IF a < b THEN a ELSE b
Max2(a, b) == IF a > b THEN a ELSE b

AABB_new(min_x, max_x, min_y, max_y, min_z, max_z) ==
    [min_coords |-> Vec3(min_x, min_y, min_z),
     max_coords |-> Vec3(max_x, max_y, max_z)]

\* Lines 47-48 without the innermost reduction: v3.z is left out.
from_triangle_two_z(triangle) ==
    LET min_x == Min2(triangle.v1.x, Min2(triangle.v2.x, triangle.v3.x))
        max_x == Max2(triangle.v1.x, Max2(triangle.v2.x, triangle.v3.x))
        min_y == Min2(triangle.v1.y, Min2(triangle.v2.y, triangle.v3.y))
        max_y == Max2(triangle.v1.y, Max2(triangle.v2.y, triangle.v3.y))
        min_z == Min2(triangle.v1.z, triangle.v2.z)
        max_z == Max2(triangle.v1.z, triangle.v2.z)
    IN  [min_coords |-> Vec3(min_x, min_y, min_z),
         max_coords |-> Vec3(max_x, max_y, max_z)]

from_triangle(triangle) ==
    LET min_x == Min2(triangle.v1.x, Min2(triangle.v2.x, triangle.v3.x))
        max_x == Max2(triangle.v1.x, Max2(triangle.v2.x, triangle.v3.x))
        min_y == Min2(triangle.v1.y, Min2(triangle.v2.y, triangle.v3.y))
        max_y == Max2(triangle.v1.y, Max2(triangle.v2.y, triangle.v3.y))
        min_z == Min2(triangle.v1.z, Min2(triangle.v2.z, triangle.v3.z))
        max_z == Max2(triangle.v1.z, Max2(triangle.v2.z, triangle.v3.z))
    IN  [min_coords |-> Vec3(min_x, min_y, min_z),
         max_coords |-> Vec3(max_x, max_y, max_z)]

\* AABB::intersects answering true for every pair of boxes.
intersects_always(self, other) == TRUE

\* Line 68 without its second comparison: on the x axis only self.max is
\* compared with other.min.
intersects_one_sided(self, other) ==
    IF self.max_coords.x < other.min_coords.x
    THEN FALSE
    ELSE IF self.max_coords.y < other.min_coords.y \/ self.min_coords.y > other.max_coords.y
    THEN FALSE
    ELSE IF self.max_coords.z < other.min_coords.z \/ self.min_coords.z > other.max_coords.z
    THEN FALSE
    ELSE TRUE

\* Mutant of intersects: boxes that only touch do not count as intersecting.
intersects_open(self, other) ==
    IF self.max_coords.x <= other.min_coords.x \/ self.min_coords.x >= other.max_coords.x
    THEN FALSE
    ELSE IF self.max_coords.y <= other.min_coords.y \/ self.min_coords.y >= other.max_coords.y
    THEN FALSE
    ELSE IF self.max_coords.z <= other.min_coords.z \/ self.min_coords.z >= other.max_coords.z
    THEN FALSE
    ELSE TRUE

intersects(self, other) ==
    IF self.max_coords.x < other.min_coords.x \/ self.min_coords.x > other.max_coords.x
    THEN FALSE
    ELSE IF self.max_coords.y < other.min_coords.y \/ self.min_coords.y > other.max_coords.y
    THEN FALSE
    ELSE IF self.max_coords.z < other.min_coords.z \/ self.min_coords.z > other.max_coords.z
    THEN FALSE
    ELSE TRUE

----------------------------------------------------------------------------
\* HashMap and Vec helpers.

EmptyMap == [k \in {} |-> 0]

MapInsert(m, key, value) ==
    [k \in (DOMAIN m) \cup {key} |-> IF k = key THEN value ELSE m[k]]

\* HashMap::remove_entry that leaves the entry in place.
MapRemove_keep(m, key) == m

MapRemove(m, key) == [k \in (DOMAIN m) \ {key} |-> m[k]]

MapGetOr(m, key, default) == IF key \in DOMAIN m THEN m[key] ELSE default

----------------------------------------------------------------------------
\* Octree (collision/octree.rs).  The operators work on a record o holding
\* the struct's fields, plus the overflow mark.

Octree_new(min_x, max_x, min_y, max_y, min_z, max_z) ==
    [AABBs               |-> <<AABB_new(min_x, max_x, min_y, max_y, min_z, max_z)>>,
     octant_AABB_map     |-> MapInsert(EmptyMap, 0, 0),
     octant_triangle_map |-> EmptyMap,
     octant_child_map    |-> EmptyMap,
     triangle_aabb_map   |-> EmptyMap,
     triangles           |-> <<>>,
     octant_count        |-> 1,
     overflow            |-> FALSE]

\* The eight child boxes, in the order subdivide pushes them.  The top four
\* take their lower y bound from half_z_distance, as the code does.
ChildBoxes(octant_aabb) ==
    LET x_min == octant_aabb.min_coords.x
        y_min == octant_aabb.min_coords.y
        z_min == octant_aabb.min_coords.z
        x_max == octant_aabb.max_coords.x
        y_max == octant_aabb.max_coords.y
        z_max == octant_aabb.max_coords.z
        half_x_distance == (x_max - x_min) \div 2
        half_y_distance == (y_max - y_min) \div 2
        half_z_distance == (z_max - z_min) \div 2
        bottom_back_left ==
            AABB_new(x_min, x_min + half_x_distance, y_min, y_min + half_y_distance,
                     z_min, z_min + half_z_distance)
        bottom_front_left ==
            AABB_new(x_min, x_min + half_x_distance, y_min, y_min + half_y_distance,
                     z_min + half_z_distance, z_max)
        bottom_front_right ==
            AABB_new(x_min + half_x_distance, x_max, y_min, y_min + half_y_distance,
                     z_min + half_z_distance, z_max)
        bottom_back_right ==
            AABB_new(x_min + half_x_distance, x_max, y_min, y_min + half_y_distance,
                     z_min, z_min + half_z_distance)
        top_back_left ==
            AABB_new(x_min, x_min + half_x_distance, y_min + half_z_distance, y_max,
                     z_min, z_min + half_z_distance)
        top_front_left ==
            AABB_new(x_min, x_min + half_x_distance, y_min + half_z_distance, y_max,
                     z_min + half_z_distance, z_max)
        top_front_right ==
            AABB_new(x_min + half_x_distance, x_max, y_min + half_z_distance, y_max,
                     z_min + half_z_distance, z_max)
        top_back_right ==
            AABB_new(x_min + half_x_distance, x_max, y_min + half_z_distance, y_max,
                     z_min, z_min + half_z_distance)
    IN  <<bottom_back_left, bottom_front_left, bottom_front_right, bottom_back_right,
          top_back_left, top_front_left, top_front_right, top_back_right>>

\* subdivide: the octree after the eight pushes; the returned child_indices
\* are octant_child_map[octant_index] of the result.
\* Lines 215-216 giving every new child the index of the first new box.
subdivide_one_box(o, octant_index) ==
    LET octant_aabb == o.AABBs[o.octant_AABB_map[octant_index] + 1]
        boxes == ChildBoxes(octant_aabb)
        n == o.octant_count
        len == Len(o.AABBs)
    IN  [o EXCEPT
           !.AABBs = @ \o boxes,
           !.octant_AABB_map =
               [k \in (DOMAIN @) \cup (n .. n + 7) |->
                   IF k \in n .. n + 7 THEN len ELSE @[k]],
           !.octant_child_map = MapInsert(@, octant_index, [i \in 1..8 |-> n + i - 1]),
           !.octant_count = n + 8]

subdivide(o, octant_index) ==
    LET octant_aabb == o.AABBs[o.octant_AABB_map[octant_index] + 1]
        boxes == ChildBoxes(octant_aabb)
        n == o.octant_count
        len == Len(o.AABBs)
    IN  [o EXCEPT
           !.AABBs = @ \o boxes,
           !.octant_AABB_map =
               [k \in (DOMAIN @) \cup (n .. n + 7) |->
                   IF k \in n .. n + 7 THEN len + (k - n) ELSE @[k]],
           !.octant_child_map = MapInsert(@, octant_index, [i \in 1..8 |-> n + i - 1]),
           !.octant_count = n + 8]

RECURSIVE push_at_octant(_, _, _, _, _)
RECURSIVE PushBothRange(_, _, _, _, _, _, _, _, _)
RECURSIVE PushChildrenRange(_, _, _, _, _, _, _)

\* The loop body of lines 90-93 run for child_indices[lo..hi], in order: push
\* the new triangle, then the displaced one.  (The range is split in halves
\* only to keep the evaluation shallow; the order of the pushes is the loop's.)
PushBothRange(o, triangle_index, aabb_index, old_triangle_index, old_triangle_aabb_index, child_indices, lo, hi, depth) ==
    IF o.overflow \/ lo > hi THEN o
    ELSE IF lo = hi
    THEN LET o1 == push_at_octant(o, triangle_index, aabb_index, child_indices[lo], depth)
         IN  push_at_octant(o1, old_triangle_index, old_triangle_aabb_index,
                            child_indices[lo], depth)
    ELSE LET mid == (lo + hi) \div 2
         IN  PushBothRange(PushBothRange(o, triangle_index, aabb_index, old_triangle_index,
                                         old_triangle_aabb_index, child_indices, lo, mid,
                                         depth),
                           triangle_index, aabb_index, old_triangle_index,
                           old_triangle_aabb_index, child_indices, mid + 1, hi, depth)

\* The loop body of lines 95-97 run for children[lo..hi], in order.
PushChildrenRange(o, triangle_index, aabb_index, children, lo, hi, depth) ==
    IF o.overflow \/ lo > hi THEN o
    ELSE IF lo = hi
    THEN push_at_octant(o, triangle_index, aabb_index, children[lo], depth)
    ELSE LET mid == (lo + hi) \div 2
         IN  PushChildrenRange(PushChildrenRange(o, triangle_index, aabb_index, children,
                                                 lo, mid, depth),
                               triangle_index, aabb_index, children, mid + 1, hi, depth)

\* Lines 90-93: for ci in &child_indices { push new; push displaced }.
PushBoth(o, triangle_index, aabb_index, old_triangle_index, old_triangle_aabb_index, child_indices, depth) ==
    PushBothRange(o, triangle_index, aabb_index, old_triangle_index,
                  old_triangle_aabb_index, child_indices, 1, Len(child_indices), depth)

\* Mutant of PushChildren: the loop stops one child short.
PushChildren_skip_last(o, triangle_index, aabb_index, children, depth) ==
    PushChildrenRange(o, triangle_index, aabb_index, children, 1, Len(children) - 1, depth)

\* Lines 95-97: for ci in children.iter() { push }.
PushChildren(o, triangle_index, aabb_index, children, depth) ==
    PushChildrenRange(o, triangle_index, aabb_index, children, 1, Len(children), depth)

\* depth is the nesting of this call; the code has no such limit, the model
\* stops following a recursion deeper than MaxDepth and marks overflow.
push_at_octant(o, triangle_index, aabb_index, octant_index, depth) ==
    IF o.overflow THEN o
    ELSE IF depth > MaxDepth THEN [o EXCEPT !.overflow = TRUE]
    ELSE
    LET aabb == o.AABBs[aabb_index + 1]
        octant_aabb == o.AABBs[o.octant_AABB_map[octant_index] + 1]
        intersects_ == intersects(aabb, octant_aabb)
        current_octant_has_triangle == octant_index \in DOMAIN o.octant_triangle_map
        children == MapGetOr(o.octant_child_map, octant_index, <<>>)
        is_leaf_octant == Len(children) = 0
    IN  IF ~intersects_ THEN o
        ELSE IF is_leaf_octant /\ ~current_octant_has_triangle
        THEN [o EXCEPT !.octant_triangle_map = MapInsert(@, octant_index, triangle_index)]
        ELSE IF is_leaf_octant
        THEN LET s == subdivide(o, octant_index)
                 child_indices == s.octant_child_map[octant_index]
                 old_triangle_index == s.octant_triangle_map[octant_index]
                 s1 == [s EXCEPT !.octant_triangle_map = MapRemove(@, octant_index)]
                 old_triangle_aabb_index == s1.triangle_aabb_map[old_triangle_index]
             IN  PushBoth(s1, triangle_index, aabb_index, old_triangle_index,
                          old_triangle_aabb_index, child_indices, depth + 1)
        ELSE PushChildren(o, triangle_index, aabb_index, children, depth + 1)

\* push_triangle that also counts an octant for each triangle pushed.
push_triangle_counting(o, triangle) ==
    LET triangle_aabb == from_triangle(triangle)
        aabb_index == Len(o.AABBs)
        triangle_index == Len(o.triangles)
        o1 == [o EXCEPT !.triangles = Append(@, triangle),
                        !.AABBs = Append(@, triangle_aabb),
                        !.triangle_aabb_map = MapInsert(@, triangle_index, aabb_index),
                        !.octant_count = @ + 1]
    IN  push_at_octant(o1, triangle_index, aabb_index, 0, 0)

push_triangle(o, triangle) ==
    LET triangle_aabb == from_triangle(triangle)
        aabb_index == Len(o.AABBs)
        triangle_index == Len(o.triangles)
        o1 == [o EXCEPT !.triangles = Append(@, triangle),
                        !.AABBs = Append(@, triangle_aabb),
                        !.triangle_aabb_map = MapInsert(@, triangle_index, aabb_index)]
    IN  push_at_octant(o1, triangle_index, aabb_index, 0, 0)

\* The octree struct held in the variables.
CurrentOctree ==
    [AABBs               |-> AABBs,
     octant_AABB_map     |-> octant_AABB_map,
     octant_triangle_map |-> octant_triangle_map,
     octant_child_map    |-> octant_child_map,
     triangle_aabb_map   |-> triangle_aabb_map,
     triangles           |-> triangles,
     octant_count        |-> octant_count,
     overflow            |-> overflow]

SetOctree(o) ==
    /\ AABBs' = o.AABBs
    /\ octant_AABB_map' = o.octant_AABB_map
    /\ octant_triangle_map' = o.octant_triangle_map
    /\ octant_child_map' = o.octant_child_map
    /\ triangle_aabb_map' = o.triangle_aabb_map
    /\ triangles' = o.triangles
    /\ octant_count' = o.octant_count
    /\ overflow' = o.overflow

----------------------------------------------------------------------------
\* f64 values of the ray code: exact rationals n/d with d > 0, and the IEEE
\* values +infinity [n=1,d=0], -infinity [n=-1,d=0] and NaN [n=0,d=0] that a
\* division by a zero direction component produces.  Rounding is not modelled.

Num(n, d) == [n |-> n, d |-> d]

IntNum(i) == Num(i, 1)

INFINITY == Num(1, 0)

Sign(i) == IF i > 0 THEN 1 ELSE IF i < 0 THEN -1 ELSE 0

\* a / b for integers a and b, as f64 division gives it.
FDiv(a, b) ==
    IF b > 0 THEN Num(a, b)
    ELSE IF b < 0 THEN Num(-a, -b)
    ELSE Num(Sign(a), 0)

IsNaN(a) == a.n = 0 /\ a.d = 0

\* a < b; false when either is NaN.
FLt(a, b) ==
    IF IsNaN(a) \/ IsNaN(b) THEN FALSE
    ELSE IF a.d = 0 /\ b.d = 0 THEN a.n < b.n
    ELSE a.n * b.d < b.n * a.d

FEq(a, b) == ~IsNaN(a) /\ ~IsNaN(b) /\ ~FLt(a, b) /\ ~FLt(b, a)

\* f64::min and f64::max: a NaN operand is ignored.
FMin(a, b) == IF IsNaN(a) THEN b ELSE IF IsNaN(b) THEN a ELSE IF FLt(b, a) THEN b ELSE a
FMax(a, b) == IF IsNaN(a) THEN b ELSE IF IsNaN(b) THEN a ELSE IF FLt(a, b) THEN b ELSE a

None == [some |-> FALSE]

----------------------------------------------------------------------------
\* Vector3d algebra (scene/engine.rs).

Sub(a, b) == Vec3(a.x - b.x, a.y - b.y, a.z - b.z)

dot(a, b) == (a.x * b.x) + (a.y * b.y) + (a.z * b.z)

cross(a, b) ==
    Vec3(a.y * b.z - a.z * b.y, -(a.x * b.z - a.z * b.x), a.x * b.y - a.y * b.x)

----------------------------------------------------------------------------
\* Ray (collision/ray.rs).  A ray is [origin, direction], both Vector3d.

\* Lines 29-36: tmin and tmax of the slab test.
slab_tmin(ray, aabb) ==
    LET t1 == FDiv(aabb.min_coords.x - ray.origin.x, ray.direction.x)
        t2 == FDiv(aabb.max_coords.x - ray.origin.x, ray.direction.x)
        t3 == FDiv(aabb.min_coords.y - ray.origin.y, ray.direction.y)
        t4 == FDiv(aabb.max_coords.y - ray.origin.y, ray.direction.y)
        t5 == FDiv(aabb.min_coords.z - ray.origin.z, ray.direction.z)
        t6 == FDiv(aabb.max_coords.z - ray.origin.z, ray.direction.z)
    IN  FMax(FMax(FMin(t1, t2), FMin(t3, t4)), FMin(t5, t6))

slab_tmax(ray, aabb) ==
    LET t1 == FDiv(aabb.min_coords.x - ray.origin.x, ray.direction.x)
        t2 == FDiv(aabb.max_coords.x - ray.origin.x, ray.direction.x)
        t3 == FDiv(aabb.min_coords.y - ray.origin.y, ray.direction.y)
        t4 == FDiv(aabb.max_coords.y - ray.origin.y, ray.direction.y)
        t5 == FDiv(aabb.min_coords.z - ray.origin.z, ray.direction.z)
        t6 == FDiv(aabb.max_coords.z - ray.origin.z, ray.direction.z)
    IN  FMin(FMin(FMax(t1, t2), FMax(t3, t4)), FMax(t5, t6))

\* Lines 48-51 left out: an origin inside the box gets tmin, which is
\* negative.
intersect_aabb_entry(ray, aabb) ==
    LET tmin == slab_tmin(ray, aabb)
        tmax == slab_tmax(ray, aabb)
    IN  IF FLt(tmax, IntNum(0)) THEN [some |-> FALSE]
        ELSE IF FLt(tmax, tmin) THEN [some |-> FALSE]
        ELSE [some |-> TRUE, t |-> tmin]

intersect_aabb(ray, aabb) ==
    LET t1 == FDiv(aabb.min_coords.x - ray.origin.x, ray.direction.x)
        t2 == FDiv(aabb.max_coords.x - ray.origin.x, ray.direction.x)
        t3 == FDiv(aabb.min_coords.y - ray.origin.y, ray.direction.y)
        t4 == FDiv(aabb.max_coords.y - ray.origin.y, ray.direction.y)
        t5 == FDiv(aabb.min_coords.z - ray.origin.z, ray.direction.z)
        t6 == FDiv(aabb.max_coords.z - ray.origin.z, ray.direction.z)
        tmin == FMax(FMax(FMin(t1, t2), FMin(t3, t4)), FMin(t5, t6))
        tmax == FMin(FMin(FMax(t1, t2), FMax(t3, t4)), FMax(t5, t6))
    IN  IF FLt(tmax, IntNum(0)) THEN None
        ELSE IF FLt(tmax, tmin) THEN None
        ELSE IF FLt(tmin, IntNum(0)) THEN [some |-> TRUE, t |-> tmax]
        ELSE [some |-> TRUE, t |-> tmin]

\* Line 81 without its second comparison: u + v > 1.0 is not tested.
intersect_with_triangle_no_sum(ray, triangle, triangle_index) ==
    LET edge1 == Sub(triangle.v2, triangle.v1)
        edge2 == Sub(triangle.v3, triangle.v1)
        h == cross(ray.direction, edge2)
        a == dot(edge1, h)
        sa == Sign(a)
        den == a * sa
        s == Sub(ray.origin, triangle.v1)
        u == dot(s, h) * sa
        q == cross(s, edge1)
        v == dot(ray.direction, q) * sa
        t == dot(edge2, q) * sa
    IN  IF a = 0 THEN None
        ELSE IF u < 0 \/ u > den THEN None
        ELSE IF v < 0 THEN None
        ELSE IF t > 0
        THEN [some |-> TRUE, t |-> Num(t, den), u |-> Num(u, den), v |-> Num(v, den),
              triangle |-> triangle_index]
        ELSE None

\* Moeller-Trumbore.  With f = 1/a the code's u, v and t are the quotients
\* (s.h)/a, (direction.q)/a and (edge2.q)/a; they are kept over the common
\* positive denominator |a|.  The coordinates are integers, so |a| < EPSILON
\* is a = 0 and t > EPSILON is t > 0.
intersect_with_triangle(ray, triangle, triangle_index) ==
    LET edge1 == Sub(triangle.v2, triangle.v1)
        edge2 == Sub(triangle.v3, triangle.v1)
        h == cross(ray.direction, edge2)
        a == dot(edge1, h)
        sa == Sign(a)
        den == a * sa
        s == Sub(ray.origin, triangle.v1)
        u == dot(s, h) * sa
        q == cross(s, edge1)
        v == dot(ray.direction, q) * sa
        t == dot(edge2, q) * sa
    IN  IF a = 0 THEN None
        ELSE IF u < 0 \/ u > den THEN None
        ELSE IF v < 0 \/ u + v > den THEN None
        ELSE IF t > 0
        THEN [some |-> TRUE, t |-> Num(t, den), u |-> Num(u, den), v |-> Num(v, den),
              triangle |-> triangle_index]
        ELSE None

\* The node view ray.rs reads (octree.nodes[i]): its triangles, children and
\* aabb_index are the entries of the three maps for octant i.
NodeTriangles(o, octant_index) ==
    IF octant_index \in DOMAIN o.octant_triangle_map
    THEN <<o.octant_triangle_map[octant_index]>> ELSE <<>>

NodeChildren(o, octant_index) == MapGetOr(o.octant_child_map, octant_index, <<>>)

\* node.triangle_count: the number of triangle assignments in the node's
\* subtree (zero exactly when neither the node nor a descendant holds one).
RECURSIVE NodeTriangleCount(_, _)
NodeTriangleCount(o, octant_index) ==
    LET ch == NodeChildren(o, octant_index)
        RECURSIVE Sum(_)
        Sum(i) == IF i > Len(ch) THEN 0 ELSE NodeTriangleCount(o, ch[i]) + Sum(i + 1)
    IN  Len(NodeTriangles(o, octant_index)) + Sum(1)

\* children_slice.sort_by(partial_cmp): a stable sort by ascending t.
StableSortByT(seq) ==
    LET n == Len(seq)
        rank(i) == Cardinality({ j \in 1..n : FLt(seq[j][1], seq[i][1]) })
                   + Cardinality({ j \in 1..(i - 1) : ~FLt(seq[j][1], seq[i][1])
                                                      /\ ~FLt(seq[i][1], seq[j][1]) })
    IN  [r \in 1..n |-> seq[CHOOSE i \in 1..n : rank(i) = r - 1]]

\* Lines 116-129: the closest hit among the node's own triangles under max_t.
RECURSIVE ClosestOwn(_, _, _, _, _, _)
ClosestOwn(o, ray, tris, i, best, closest) ==
    IF i > Len(tris) THEN best
    ELSE LET tri == intersect_with_triangle(ray, o.triangles[tris[i] + 1], tris[i])
         IN  IF tri.some /\ FLt(tri.t, closest)
             THEN ClosestOwn(o, ray, tris, i + 1, tri, tri.t)
             ELSE ClosestOwn(o, ray, tris, i + 1, best, closest)

RECURSIVE intersect_with_octant_with_max_t(_, _, _, _)
RECURSIVE FirstChildHit(_, _, _, _)

\* Lines 152-161: the first child, in sorted order, that yields a hit.
FirstChildHit(o, ray, children_slice, i) ==
    IF i > Len(children_slice) THEN None
    ELSE LET res == intersect_with_octant_with_max_t(o, ray, children_slice[i][2], INFINITY)
         IN  IF res.some THEN res ELSE FirstChildHit(o, ray, children_slice, i + 1)

\* Lines 163-167 without the comparison: a hit found in a child is returned
\* whatever its distance.
intersect_with_octant_with_max_t_child_first(o, ray, octant_index, max_t) ==
    IF NodeTriangleCount(o, octant_index) = 0 THEN None
    ELSE
    LET intersected_triangle_in_octant ==
            ClosestOwn(o, ray, NodeTriangles(o, octant_index), 1, None, max_t)
        closest_triangle_in_octant_distance ==
            IF intersected_triangle_in_octant.some
            THEN intersected_triangle_in_octant.t ELSE max_t
        children == NodeChildren(o, octant_index)
        hit(i) == intersect_aabb(ray, o.AABBs[o.octant_AABB_map[children[i]] + 1])
        candidates == SelectSeq([i \in 1..Len(children) |-> i], LAMBDA i : hit(i).some)
        child_octant_intersection_distances ==
            [k \in 1..Len(candidates) |-> <<hit(candidates[k]).t, children[candidates[k]]>>]
        children_slice == StableSortByT(child_octant_intersection_distances)
        intersected_triangle_in_child_octant == FirstChildHit(o, ray, children_slice, 1)
    IN  IF intersected_triangle_in_child_octant.some
        THEN intersected_triangle_in_child_octant
        ELSE intersected_triangle_in_octant

intersect_with_octant_with_max_t(o, ray, octant_index, max_t) ==
    IF NodeTriangleCount(o, octant_index) = 0 THEN None
    ELSE
    LET intersected_triangle_in_octant ==
            ClosestOwn(o, ray, NodeTriangles(o, octant_index), 1, None, max_t)
        closest_triangle_in_octant_distance ==
            IF intersected_triangle_in_octant.some
            THEN intersected_triangle_in_octant.t ELSE max_t
        children == NodeChildren(o, octant_index)
        hit(i) == intersect_aabb(ray, o.AABBs[o.octant_AABB_map[children[i]] + 1])
        candidates == SelectSeq([i \in 1..Len(children) |-> i], LAMBDA i : hit(i).some)
        child_octant_intersection_distances ==
            [k \in 1..Len(candidates) |-> <<hit(candidates[k]).t, children[candidates[k]]>>]
        children_slice == StableSortByT(child_octant_intersection_distances)
        intersected_triangle_in_child_octant == FirstChildHit(o, ray, children_slice, 1)
    IN  IF intersected_triangle_in_child_octant.some
           /\ FLt(intersected_triangle_in_child_octant.t, closest_triangle_in_octant_distance)
        THEN intersected_triangle_in_child_octant
        ELSE intersected_triangle_in_octant

intersect_with_octant(o, ray, octant_index) ==
    intersect_with_octant_with_max_t(o, ray, octant_index, INFINITY)

----------------------------------------------------------------------------
\* The operations on the octree.

\* Octree::new with one of the offered bounds.
OctreeInitWith(bounds) ==
    \E b \in bounds :
        LET o == Octree_new(b[1] * Scale, b[2] * Scale, b[3] * Scale,
                            b[4] * Scale, b[5] * Scale, b[6] * Scale)
        IN  /\ AABBs = o.AABBs
            /\ octant_AABB_map = o.octant_AABB_map
            /\ octant_triangle_map = o.octant_triangle_map
            /\ octant_child_map = o.octant_child_map
            /\ triangle_aabb_map = o.triangle_aabb_map
            /\ triangles = o.triangles
            /\ octant_count = o.octant_count
            /\ overflow = o.overflow

NoQuery == [made |-> FALSE]

\* One push_triangle call.  A push whose recursion overflowed never returns:
\* no further call is made on that octree.
PushTriangle ==
    /\ ~overflow
    /\ Len(triangles) < MaxTriangles
    /\ \E t \in TrianglePool : SetOctree(push_triangle(CurrentOctree, t))
    /\ UNCHANGED <<rayQuery, drawVars, colourVars, lightVars, boxQuery, sample, mtl>>

----------------------------------------------------------------------------
\* Casting rays into a built scene.

\* The loader's root box (file_management/utils.rs line 129 uses a cube).
SceneRootBounds == { <<0, 4, 0, 4, 0, 4>> }

\* Ray origins (world coordinates in quarters) and directions.
Quarter == Scale \div 4

RayOrigins ==
    { Vec3(x * Quarter, x * Quarter, z * Quarter) :
          x \in {1, 13}, z \in {-4, 2, 6, 10, 14, 20} }

RayDirections == { Vec3(0, 0, 1), Vec3(0, 0, -1), Vec3(1, 1, 1), Vec3(-1, -1, -1) }

Rays == { [origin |-> p, direction |-> d] : p \in RayOrigins, d \in RayDirections }

\* The scene is built by push_triangle calls before any ray is cast.
PushSceneTriangle ==
    /\ ~overflow
    /\ ~rayQuery.made
    /\ Len(triangles) < MaxSceneTriangles
    /\ \E t \in ScenePool : SetOctree(push_triangle(CurrentOctree, t))
    /\ UNCHANGED <<rayQuery, drawVars, colourVars, lightVars, boxQuery, sample, mtl>>

\* ray.intersect_with_octant(&octree, 0) on the built octree.
CastRay ==
    /\ ~overflow
    /\ \E ray \in Rays :
          rayQuery' = [made |-> TRUE, ray |-> ray, max_t |-> INFINITY,
                       result |-> intersect_with_octant(CurrentOctree, ray, 0)]
    /\ UNCHANGED <<octreeVars, drawVars, colourVars, lightVars, boxQuery, sample, mtl>>

----------------------------------------------------------------------------
\* Ray::intersect_aabb applied to single boxes (collision/ray.rs lines
\* 21-54): a cube, a box longer on x, and a flat box without interior;
\* origins inside, on the faces and outside; directions with zero, equal
\* and unequal components.

AabbRayBoxes ==
    { AABB_new(2, 4, 2, 4, 2, 4), AABB_new(1, 5, 2, 4, 2, 4), AABB_new(2, 4, 2, 4, 3, 3) }

AabbRayOrigins == { Vec3(x, y, z) : x \in 0..6, y \in 0..6, z \in 0..6 }

AabbRayDirections ==
    { Vec3(x, y, z) : x \in -2..2, y \in -2..2, z \in -2..2 } \ { Vec3(0, 0, 0) }

\* ray.intersect_aabb(&aabb) for one ray and one box.
IntersectAabb ==
    /\ ~rayQuery.made
    /\ \E aabb \in AabbRayBoxes, origin \in AabbRayOrigins, direction \in AabbRayDirections :
          LET ray == [origin |-> origin, direction |-> direction]
          IN  rayQuery' = [made |-> TRUE, ray |-> ray, aabb |-> aabb,
                           result |-> intersect_aabb(ray, aabb)]
    /\ UNCHANGED <<octreeVars, drawVars, colourVars, lightVars, boxQuery, sample, mtl>>

----------------------------------------------------------------------------
\* Ray::intersect_with_triangle applied to single triangles (collision/ray.rs
\* lines 56-94): every triangle with vertices on the corners of a cube, in
\* any order, zero-area triangles included; rays from around and inside the
\* cube, some parallel to the triangles.

TriRayTriangles ==
    LET P == { Vec3(x, y, z) : x \in {0, 2}, y \in {0, 2}, z \in {0, 2} }
    IN  [v1 : P, v2 : P, v3 : P]

TriRayOrigins == { Vec3(x, y, z) : x \in {-1, 1, 3}, y \in {-1, 1, 3}, z \in {-1, 1} }

TriRayDirections ==
    { Vec3(x, y, z) : x \in -1..1, y \in -1..1, z \in -1..1 } \ { Vec3(0, 0, 0) }

\* ray.intersect_with_triangle(&triangle) for one ray and one triangle.
IntersectTriangle ==
    /\ ~rayQuery.made
    /\ \E triangle \in TriRayTriangles, origin \in TriRayOrigins, direction \in TriRayDirections :
          LET ray == [origin |-> origin, direction |-> direction]
          IN  rayQuery' = [made |-> TRUE, ray |-> ray, triangle |-> triangle,
                           result |-> intersect_with_triangle(ray, triangle, 0)]
    /\ UNCHANGED <<octreeVars, drawVars, colourVars, lightVars, boxQuery, sample, mtl>>

----------------------------------------------------------------------------
\* Shadow queries: RayTracer::triangle_exists_between_points
\* (scene/raytracer.rs lines 164-188).

\* The lit points queried, and the offsets from a point to a light: lights
\* straight above or below the point at 0.625, 2 and 5 world units.  The
\* points keep at least half a unit from the planes of the scene's triangles,
\* and no triangle of the scene passes through a light or lies at ray
\* parameter max_t exactly.
ShadowPoints ==
    { Vec3(x * Quarter, x * Quarter, z * Quarter) : x \in {1, 13}, z \in {2, 6, 10, 14, 18} }

LightOffsets ==
    { Vec3(0, 0, sign * dz * (Scale \div 8)) : sign \in {-1, 1}, dz \in {5, 16, 40} }

Add(a, b) == Vec3(a.x + b.x, a.y + b.y, a.z + b.z)

Abs(i) == IF i < 0 THEN -i ELSE i

\* Vector3d::length, in world units, of a vector that lies along one axis.
length(v) == Num(Abs(v.x) + Abs(v.y) + Abs(v.z), Scale)

\* origin + normal * SURFACE_OFFSET.  The offset, 0.0001 world units, is far
\* below the grid's step and below every distance between the points queried
\* and the triangles; the point is kept as it is.
OffsetOrigin(origin) == origin

\* The Ray the shadow query builds and its max_t (lines 170-179).
ShadowRay(origin, target) ==
    [origin |-> OffsetOrigin(origin), direction |-> Sub(target, origin)]

ShadowMaxT(origin, target) == length(Sub(target, origin))

\* Returns TRUE when the query finds no triangle (lines 181-187).
triangle_exists_between_points(o, origin, target) ==
    LET tri == intersect_with_octant_with_max_t(o, ShadowRay(origin, target), 0,
                                                ShadowMaxT(origin, target))
    IN  ~tri.some

\* compute_lighting_intensity asks whether a Point light reaches a point.
\* The query only reads the octree, so one query of each built scene shows
\* all of them.
ShadowQuery ==
    /\ ~overflow
    /\ ~rayQuery.made
    /\ \E origin \in ShadowPoints, l \in LightOffsets :
          LET target == Add(origin, l)
          IN  rayQuery' = [made |-> TRUE,
                           ray |-> ShadowRay(origin, target),
                           max_t |-> ShadowMaxT(origin, target),
                           result |-> intersect_with_octant_with_max_t(
                                          CurrentOctree, ShadowRay(origin, target), 0,
                                          ShadowMaxT(origin, target)),
                           light_hits_point |->
                               triangle_exists_between_points(CurrentOctree, origin, target)]
    /\ UNCHANGED <<octreeVars, drawVars, colourVars, lightVars, boxQuery, sample, mtl>>

----------------------------------------------------------------------------
\* Canvas and Scene::draw_scene (scene/engine.rs).

\* i32 division, which truncates toward zero.
TruncDiv(a, b) == IF a >= 0 THEN a \div b ELSE -((-a) \div b)

\* The (x, y) of the tasks in the order the nested loops submit them.
RECURSIVE RangeSeq(_, _)
RangeSeq(lo, hi) == IF lo > hi THEN <<>> ELSE <<lo>> \o RangeSeq(lo + 1, hi)

RECURSIVE Concat(_, _)
Concat(f, i) == IF i > Len(f) THEN <<>> ELSE f[i] \o Concat(f, i + 1)

TaskList(c) ==
    LET xs == RangeSeq(TruncDiv(-c.width, 2), TruncDiv(c.width, 2) - 1)
        ys == RangeSeq(TruncDiv(-c.height, 2), TruncDiv(c.height, 2) - 1)
    IN  Concat([i \in 1..Len(xs) |-> [j \in 1..Len(ys) |-> <<xs[i], ys[j]>>]], 1)

\* The u32 colour the task of pixel (x, y) computes (lines 210-238): a pure
\* function of the pixel and the shared read-only scene; every pixel of the
\* scene modelled gets a colour of its own, none of them 0.
PixelColour(x, y) == 1 + (x + MaxWidth) * (2 * MaxHeight + 1) + (y + MaxHeight)

\* put_pixel with out-of-range rows clamped onto the last row instead of
\* being left unwritten: two pixels then share a cell.
put_pixel_index_clamped(c, x, y) ==
    LET new_x == x + TruncDiv(c.width, 2)
        new_y == c.height - (y + TruncDiv(c.height, 2))
    IN  IF new_x < 0 \/ new_x >= c.width \/ new_y < 0
        THEN -1
        ELSE (IF new_y >= c.height THEN c.height - 1 ELSE new_y) * c.width + new_x

\* Canvas::put_pixel: the index written, or -1 when the coordinates are out of
\* bounds and the call returns without writing.
put_pixel_index(c, x, y) ==
    LET new_x == x + TruncDiv(c.width, 2)
        new_y == c.height - (y + TruncDiv(c.height, 2))
    IN  IF new_x < 0 \/ new_x >= c.width \/ new_y < 0 \/ new_y >= c.height
        THEN -1
        ELSE new_y * c.width + new_x

put_pixel(buf, c, x, y, color) ==
    LET i == put_pixel_index(c, x, y)
    IN  IF i = -1 THEN buf ELSE [buf EXCEPT ![i] = color]

\* The Sender handles alive: tx until it is dropped, and the clone each task
\* not yet finished owns.
LiveSenders == (IF pc = "submit" THEN 1 ELSE 0) + Len(jobQueue) + Cardinality(running)

\* Position of a pixel in the submission order.
TaskIndex(p) == CHOOSE i \in 1..Len(TaskList(canvas)) : TaskList(canvas)[i] = p

DrawIdle ==
    /\ canvas = [width |-> 0, height |-> 0]
    /\ ap = 0
    /\ faulty = {}
    /\ pc = "done"
    /\ submitted = 0
    /\ jobQueue = <<>>
    /\ running = {}
    /\ channel = <<>>
    /\ buffer = <<>>
    /\ ctr = 0
    /\ received = {}
    /\ reordered = FALSE

\* Scene::new(width, height) followed by the start of draw_scene: the buffer
\* is vec![0; width * height], the pool has ap threads.  The scene either
\* traces every pixel or makes the trace of the centre pixel panic.
DrawInit ==
    /\ canvas \in [width : 1..MaxWidth, height : 1..MaxHeight]
    /\ ap \in 1..MaxWorkers
    /\ faulty \in { f \in { {}, {<<0, 0>>} } :
                      \A p \in f : \E i \in 1..Len(TaskList(canvas)) : TaskList(canvas)[i] = p }
    /\ pc = "submit"
    /\ submitted = 0
    /\ jobQueue = <<>>
    /\ running = {}
    /\ channel = <<>>
    /\ buffer = [i \in 0 .. (canvas.width * canvas.height - 1) |-> 0]
    /\ ctr = 0
    /\ received = {}
    /\ reordered = FALSE

\* Lines 205-241: one iteration of the nested loops: tp.execute(task).
Submit ==
    /\ pc = "submit"
    /\ submitted < Len(TaskList(canvas))
    /\ jobQueue' = Append(jobQueue, TaskList(canvas)[submitted + 1])
    /\ submitted' = submitted + 1
    /\ UNCHANGED <<octreeVars, rayQuery, colourVars, lightVars, boxQuery, sample, mtl>>
    /\ UNCHANGED <<canvas, ap, faulty, pc, running, channel, buffer, ctr, received,
                   reordered>>

\* Line 246: drop(tx) after the loops; the receive loop starts.
DropTx ==
    /\ pc = "submit"
    /\ submitted = Len(TaskList(canvas))
    /\ pc' = "recv"
    /\ UNCHANGED <<octreeVars, rayQuery, colourVars, lightVars, boxQuery, sample, mtl>>
    /\ UNCHANGED <<canvas, ap, faulty, submitted, jobQueue, running, channel, buffer,
                   ctr, received, reordered>>

\* A free pool thread takes the next queued task.
StartTask ==
    /\ jobQueue # <<>>
    /\ Cardinality(running) < ap
    /\ running' = running \cup {Head(jobQueue)}
    /\ jobQueue' = Tail(jobQueue)
    /\ UNCHANGED <<octreeVars, rayQuery, colourVars, lightVars, boxQuery, sample, mtl>>
    /\ UNCHANGED <<canvas, ap, faulty, pc, submitted, channel, buffer, ctr, received,
                   reordered>>

\* Lines 210-240: the task traces its four rays, mixes them and sends
\* (y, x, final_color); its Sender clone is dropped with the closure.
FinishTask ==
    \E p \in running :
        /\ p \notin faulty
        /\ channel' = Append(channel, <<p[2], p[1], PixelColour(p[1], p[2])>>)
        /\ running' = running \ {p}
        /\ UNCHANGED <<octreeVars, rayQuery, colourVars, lightVars, boxQuery, sample, mtl>>
        /\ UNCHANGED <<canvas, ap, faulty, pc, submitted, jobQueue, buffer, ctr,
                       received, reordered>>

\* The trace panics: the closure unwinds, its Sender clone is dropped and
\* nothing is sent; the pool replaces the thread.
PanicTask ==
    \E p \in running :
        /\ p \in faulty
        /\ running' = running \ {p}
        /\ UNCHANGED <<octreeVars, rayQuery, colourVars, lightVars, boxQuery, sample, mtl>>
        /\ UNCHANGED <<canvas, ap, faulty, pc, submitted, jobQueue, channel, buffer,
                       ctr, received, reordered>>

\* Lines 250-260: one iteration of `for received in rx`.
Receive ==
    /\ pc = "recv"
    /\ channel # <<>>
    /\ LET y == Head(channel)[1]
           x == Head(channel)[2]
           col == Head(channel)[3]
       IN  /\ ctr' = ctr + 1
           /\ buffer' = put_pixel(buffer, canvas, x, y, col)
           /\ received' = received \cup {<<x, y>>}
           /\ reordered' = (reordered \/ \E q \in received : TaskIndex(q) > TaskIndex(<<x, y>>))
    /\ channel' = Tail(channel)
    /\ UNCHANGED <<octreeVars, rayQuery, colourVars, lightVars, boxQuery, sample, mtl>>
    /\ UNCHANGED <<canvas, ap, faulty, pc, submitted, jobQueue, running>>

\* The iterator ends when the channel is empty and every Sender is dropped;
\* line 262 updates the canvas and draw_scene returns.
Return ==
    /\ pc = "recv"
    /\ channel = <<>>
    /\ LiveSenders = 0
    /\ pc' = "done"
    /\ UNCHANGED <<octreeVars, rayQuery, colourVars, lightVars, boxQuery, sample, mtl>>
    /\ UNCHANGED <<canvas, ap, faulty, submitted, jobQueue, running, channel, buffer,
                   ctr, received, reordered>>

----------------------------------------------------------------------------
\* AABB::intersects applied to pairs of boxes (collision/AABB.rs lines 67-78).
\* The boxes are those AABB::new and AABB::from_triangle build with
\* min <= max on every axis, over the coordinates 0 .. MaxCoord.

MaxCoord == 2

Coords == 0 .. MaxCoord

Boxes ==
    { AABB_new(c[1], c[2], c[3], c[4], c[5], c[6]) :
        c \in { d \in [1..6 -> Coords] : d[1] <= d[2] /\ d[3] <= d[4] /\ d[5] <= d[6] } }

\* a.intersects(&b) and b.intersects(&a) for one pair of boxes.
IntersectBoxes ==
    /\ ~boxQuery.made
    /\ \E a \in Boxes, b \in Boxes :
          boxQuery' = [made |-> TRUE, self |-> a, other |-> b,
                       result |-> intersects(a, b), reverse |-> intersects(b, a)]
    /\ UNCHANGED <<octreeVars, rayQuery, drawVars, colourVars, lightVars, sample, mtl>>

\* Every triangle with vertices on the coordinates 0 .. MaxCoord, the
\* vertices in any order, degenerate triangles included.
Points == { Vec3(x, y, z) : x \in Coords, y \in Coords, z \in Coords }

Triangles == [v1 : Points, v2 : Points, v3 : Points]

\* AABB::from_triangle(&triangle) for one triangle.
BoxFromTriangle ==
    /\ ~boxQuery.made
    /\ \E triangle \in Triangles :
          boxQuery' = [made |-> TRUE, triangle |-> triangle, box |-> from_triangle(triangle)]
    /\ UNCHANGED <<octreeVars, rayQuery, drawVars, colourVars, lightVars, sample, mtl>>

----------------------------------------------------------------------------
\* Texture sampling of a hit (scene/raytracer.rs lines 42-57 and 114-129).
\* A Texture is its width and height; its colours vector holds width * height
\* entries (file_management/utils.rs lines 329-351, one Color per pixel).

\* Largest texture width and height.
MaxTexSize == 3

Textures == [width : 1..MaxTexSize, height : 1..MaxTexSize]

ColoursLen(tex) == tex.width * tex.height

\* The values (tex_x * tex.width as f64) and (tex_y * tex.height as f64) can
\* take for interpolated texture coordinates, which an OBJ file may put
\* outside [0, 1): below zero, inside the texture, beyond it.
TexelValues == -1 .. (2 * MaxTexSize)

\* `as usize` of an f64: negative values saturate to 0.
AsUsize(v) == IF v < 0 THEN 0 ELSE v

\* One hit is shaded: lines 52-55 index the base texture, and
\* get_normal_at_intersection (lines 125-127) indexes the bump map, if the
\* material has one, with the same tex_x_index and tex_y_index.  An index
\* at or beyond the length of the colours vector panics.
SampleTexture ==
    /\ ~sample.made
    /\ \E tex \in Textures, bump \in {[some |-> FALSE]} \cup
                               { [some |-> TRUE, width |-> b.width, height |-> b.height] :
                                   b \in Textures },
          fx \in TexelValues, fy \in TexelValues :
          LET tex_x_index == AsUsize(fx) % tex.width
              tex_y_index == AsUsize(fy) % tex.height
              colour_index == tex.width * tex_y_index + tex_x_index
              bump_index == IF bump.some THEN bump.width * tex_y_index + tex_x_index ELSE 0
          IN  sample' = [made |-> TRUE, tex |-> tex, bump_map |-> bump,
                         tex_x_index |-> tex_x_index, tex_y_index |-> tex_y_index,
                         colour_index |-> colour_index, bump_index |-> bump_index,
                         panicked |-> \/ colour_index >= ColoursLen(tex)
                                      \/ bump.some /\ bump_index >= ColoursLen(bump)]
    /\ UNCHANGED <<octreeVars, rayQuery, drawVars, colourVars, lightVars, boxQuery, mtl>>

----------------------------------------------------------------------------
\* parse_mtl_file_lines (file_management/utils.rs lines 22-120).  An
\* accumulator is an Option: 0 stands for None, a positive number for
\* Some(value); coefficients, Ns values and texture files are numbered.

\* Number of MTL lines read before the end of input.
MaxMtlLines == 4

\* The accumulators of lines 35-41, by the line type that sets each.
MtlAttrs == {"Ka", "Kd", "Ks", "Ns", "map_Ka", "bump"}

\* The lines a file is made of: newmtl with a name, and the six attributes.
MtlLines ==
    [kind : {"newmtl"}, value : {1, 2}]
        \cup [kind : {"Ka"}, value : {1, 2}]
        \cup [kind : {"Kd", "Ks", "map_Ka", "bump"}, value : {1}]
        \cup [kind : {"Ns"}, value : {10}]

\* Lines 53-59: unwrap_or(*DEFAULT_VERTICES) for the coefficients,
\* unwrap_or(240.0) for Ns; bump_map stays an Option.
MtlDefault(attr) == IF attr = "Ns" THEN 240 ELSE 0

\* Lines 51-62: the Material built from the accumulators.
MaterialOf(name, acc) ==
    [name |-> name,
     attrs |-> [a \in MtlAttrs |-> IF acc[a] = 0 THEN MtlDefault(a) ELSE acc[a]]]

\* parse_mtl_file_lines has not been called.
MtlIdle == [phase |-> "idle"]

\* Lines 33-41: every accumulator is None and no material is emitted.  `own`
\* and `emitted` record, for the claims, what the current block has
\* declared and what each emitted material was built from.
MtlStart ==
    [phase     |-> "parsing",
     name      |-> 0,
     acc       |-> [a \in MtlAttrs |-> 0],
     materials |-> [n \in {} |-> 0],
     own       |-> [a \in MtlAttrs |-> 0],
     emitted   |-> <<>>,
     lines     |-> 0]

\* Lines 49-71, the `newmtl | END` arm: the material named so far is
\* emitted from the accumulators (texture.clone().unwrap() panics when no
\* map_Ka was ever read) and the name becomes next_name.  Nothing resets
\* the accumulators.
EmitAndRename(m, next_name) ==
    IF m.name # 0 /\ m.acc["map_Ka"] = 0
    THEN [m EXCEPT !.phase = "panicked"]
    ELSE LET mat == MaterialOf(m.name, m.acc)
             m1 == IF m.name = 0 THEN m
                   ELSE [m EXCEPT !.materials = MapInsert(@, m.name, mat),
                                  !.emitted = Append(@, [material |-> mat, own |-> m.own])]
         IN  [m1 EXCEPT !.name = next_name,
                        !.own = [a \in MtlAttrs |-> 0]]

\* One iteration of the loop of line 44 on a line of the file.
ParseMtlLine ==
    /\ mtl.phase = "parsing"
    /\ mtl.lines < MaxMtlLines
    /\ \E line \in MtlLines :
          LET m == [mtl EXCEPT !.lines = @ + 1]
          IN  mtl' = IF line.kind = "newmtl"
                     THEN EmitAndRename(m, line.value)
                     ELSE [m EXCEPT !.acc[line.kind] = line.value,
                                    !.own[line.kind] = line.value]
    /\ UNCHANGED <<octreeVars, rayQuery, drawVars, colourVars, lightVars, boxQuery, sample>>

\* The last iteration, on the "END" line chained to the input at line 44.
ParseMtlEnd ==
    /\ mtl.phase = "parsing"
    /\ LET m == EmitAndRename(mtl, 0)
       IN  mtl' = IF m.phase = "panicked" THEN m ELSE [m EXCEPT !.phase = "done"]
    /\ UNCHANGED <<octreeVars, rayQuery, drawVars, colourVars, lightVars, boxQuery, sample>>

----------------------------------------------------------------------------
\* RayTracer::get_ray_colour (scene/raytracer.rs).  What a ray hits is decided
\* by the scene, so each trace is given any of the outcomes a scene can
\* produce: no hit, or a hit with some local colour and some reflectivity.
\* The three colour channels are computed alike; one is modelled.

MAX_REFLECTION_DEPTH == 5

WHITE == 255

\* local_color of a hit: texel times lighting intensity, an f64 that may
\* exceed 255.
LocalColours == {0, 300}

\* material.reflectivity, in halves: 0, 0.5 and 1.0.
Reflectivities == {0, 1, 2}

\* f64::clamp(0.0, 255.0) as u8.
ClampU8(v) == IF v < 0 THEN 0 ELSE IF v > 255 THEN 255 ELSE v

\* Line 75 with the guard off by one.
ShouldReflect_inclusive(reflectivity, depth) ==
    reflectivity > 0 /\ depth <= MAX_REFLECTION_DEPTH

\* Line 75: reflectivity > 0.0 && depth < MAX_REFLECTION_DEPTH.
ShouldReflect(reflectivity, depth) ==
    reflectivity > 0 /\ depth < MAX_REFLECTION_DEPTH

\* Lines 92-98: local_color * (1 - reflectivity) + reflected * reflectivity,
\* clamped and truncated.
Blend(local_color, reflectivity, reflected_color) ==
    ClampU8((local_color * (2 - reflectivity) + reflected_color * reflectivity) \div 2)

ColourIdle ==
    /\ rcPhase = "idle"
    /\ rcStack = <<>>
    /\ rcResult = 0
    /\ rcBounces = 0
    /\ rcAllMirror = TRUE
    /\ rcMissed = FALSE

\* The innermost frame returns `colour`: to the frame that called it, which
\* resumes at line 84 with the reflected colour, or to get_ray_colour's caller.
ReturnColour(colour) ==
    LET rest == SubSeq(rcStack, 1, Len(rcStack) - 1)
    IN  IF rest = <<>>
        THEN /\ rcStack' = <<>>
             /\ rcResult' = colour
             /\ rcPhase' = "done"
        ELSE /\ rcStack' = [rest EXCEPT ![Len(rest)] =
                                [@ EXCEPT !.at = "blend", !.reflected = colour]]
             /\ rcResult' = rcResult
             /\ rcPhase' = rcPhase

Frame(depth) ==
    [depth |-> depth, at |-> "trace", local_color |-> 0, reflectivity |-> 0, reflected |-> 0]

\* Lines 29-31: get_ray_colour calls get_ray_colour_recursive at depth 0.
get_ray_colour ==
    /\ rcPhase = "idle"
    /\ rcPhase' = "running"
    /\ rcStack' = <<Frame(0)>>
    /\ rcMissed' = FALSE
    /\ UNCHANGED <<rcResult, rcBounces, rcAllMirror>>
    /\ UNCHANGED <<octreeVars, rayQuery, drawVars, lightVars, boxQuery, sample, mtl>>

\* Lines 36, 109-111 with the miss branch handing back black.
TraceMiss_black ==
    /\ rcPhase = "running"
    /\ rcStack[Len(rcStack)].at = "trace"
    /\ ReturnColour(0)
    /\ rcAllMirror' = FALSE
    /\ rcMissed' = TRUE
    /\ UNCHANGED rcBounces
    /\ UNCHANGED <<octreeVars, rayQuery, drawVars, lightVars, boxQuery, sample, mtl>>

\* Lines 36, 109-111: the ray hits nothing and the frame returns WHITE.
TraceMiss ==
    /\ rcPhase = "running"
    /\ rcStack[Len(rcStack)].at = "trace"
    /\ ReturnColour(WHITE)
    /\ rcAllMirror' = FALSE
    /\ rcMissed' = TRUE
    /\ UNCHANGED rcBounces
    /\ UNCHANGED <<octreeVars, rayQuery, drawVars, lightVars, boxQuery, sample, mtl>>

\* Lines 38-108: the ray hits a triangle.  A reflective hit below the maximum
\* depth calls get_ray_colour_recursive with depth + 1 and waits for it; any
\* other hit returns the clamped local colour.
TraceHit ==
    /\ rcPhase = "running"
    /\ rcStack[Len(rcStack)].at = "trace"
    /\ \E local_color \in LocalColours, reflectivity \in Reflectivities :
          LET top == rcStack[Len(rcStack)]
          IN  /\ rcAllMirror' = (rcAllMirror /\ reflectivity > 0)
              /\ rcMissed' = FALSE
              /\ IF ShouldReflect(reflectivity, top.depth)
                 THEN /\ rcStack' =
                            Append([rcStack EXCEPT ![Len(rcStack)] =
                                       [@ EXCEPT !.at = "wait",
                                                 !.local_color = local_color,
                                                 !.reflectivity = reflectivity]],
                                   Frame(top.depth + 1))
                      /\ rcBounces' = rcBounces + 1
                      /\ UNCHANGED <<rcPhase, rcResult>>
                 ELSE /\ ReturnColour(ClampU8(local_color))
                      /\ UNCHANGED rcBounces
    /\ UNCHANGED <<octreeVars, rayQuery, drawVars, lightVars, boxQuery, sample, mtl>>

\* Lines 84-98: the recursive call has returned; the frame blends its local
\* colour with the reflected one and returns the result.
BlendReflection ==
    /\ rcPhase = "running"
    /\ rcStack[Len(rcStack)].at = "blend"
    /\ LET top == rcStack[Len(rcStack)]
       IN  ReturnColour(Blend(top.local_color, top.reflectivity, top.reflected))
    /\ rcMissed' = FALSE
    /\ UNCHANGED <<rcBounces, rcAllMirror>>
    /\ UNCHANGED <<octreeVars, rayQuery, drawVars, lightVars, boxQuery, sample, mtl>>

----------------------------------------------------------------------------
\* RayTracer::compute_lighting_intensity (scene/raytracer.rs), one colour
\* channel.  The lit point has a unit normal and is viewed along it (v = n).
\* A light is either Ambient, or Directional or Point with unit l and
\* n_dot_l = 0 or 1; r = 2 n (n.l) - l then gives r.v = n_dot_l, and every
\* length in the quotients is 1.  `blocked` says whether a triangle lies
\* between the lit point and the light: for a Point light it is what
\* triangle_exists_between_points finds; the code never asks it of a
\* Directional light.  The light at position k of the list has intensity
\* 4^(k-1), and the material's coefficients are Ka = 3, Kd = 1, Ks = 2, so
\* that the sum returned shows which terms were added.

ambient_color_coefficient == 3
diffuse_color_coefficient == 1
specular_color_coefficient == 2

Intensity(k) == Pow2(2 * (k - 1))

LightsAt(k) ==
    { [kind |-> "Ambient", intensity |-> Intensity(k), n_dot_l |-> 0, blocked |-> FALSE] }
    \cup [kind : {"Directional", "Point"}, intensity : {Intensity(k)},
          n_dot_l : {0, 1}, blocked : BOOLEAN]

LightLists ==
    UNION { { ls \in [1..n -> UNION { LightsAt(k) : k \in 1..n }] :
                \A k \in 1..n : ls[k] \in LightsAt(k) } : n \in 1..MaxLights }

\* Lines 260-277.
compute_diffuse_lighting_intensity(intensity, n_dot_l) ==
    IF n_dot_l <= 0 THEN 0
    ELSE (diffuse_color_coefficient * intensity * n_dot_l) \div (1 * 1)

\* Lines 279-304; (r.v / (|r| |v|)).powf(s) is 1 when r.v = 1.
compute_specular_lighting_intensity(s, intensity, r_dot_v) ==
    IF s # -1 /\ r_dot_v > 0 THEN specular_color_coefficient * intensity * 1
    ELSE 0

\* A shadow test that always finds the light.
light_hits_point_always(light) == TRUE

\* Lines 232-233: what triangle_exists_between_points returns for the light:
\* true when no triangle is found between the point and the light.
light_hits_point(light) == ~light.blocked

\* Lines 205-255: the loop over the lights from position k on, i the sum so
\* far.  A Point light that does not reach the point leaves the loop (break).
RECURSIVE LightLoop(_, _, _, _)
LightLoop(ls, k, i, s) ==
    IF k > Len(ls) THEN i
    ELSE LET light == ls[k]
         IN  IF light.kind = "Ambient"
             THEN LightLoop(ls, k + 1, i + ambient_color_coefficient * light.intensity, s)
             ELSE IF light.kind = "Directional"
             THEN LightLoop(ls, k + 1,
                            i + compute_diffuse_lighting_intensity(light.intensity, light.n_dot_l)
                              + compute_specular_lighting_intensity(s, light.intensity,
                                                                    light.n_dot_l),
                            s)
             ELSE IF ~light_hits_point(light)
             THEN i
             ELSE LightLoop(ls, k + 1,
                            i + compute_diffuse_lighting_intensity(light.intensity, light.n_dot_l)
                              + compute_specular_lighting_intensity(s, light.intensity,
                                                                    light.n_dot_l),
                            s)

compute_lighting_intensity(ls, s) == LightLoop(ls, 1, 0, s)

NoLighting == [made |-> FALSE]

LightIdle ==
    /\ lights = <<>>
    /\ specular_weight = -1
    /\ lighting = NoLighting

\* A scene's lights and the material of the surface hit.
LightInit ==
    /\ lights \in LightLists
    /\ specular_weight \in {-1, 10}
    /\ lighting = NoLighting

\* One call of compute_lighting_intensity.
ComputeLighting ==
    /\ ~lighting.made
    /\ lights # <<>>
    /\ lighting' = [made |-> TRUE, i |-> compute_lighting_intensity(lights, specular_weight)]
    /\ UNCHANGED <<lights, specular_weight>>
    /\ UNCHANGED <<octreeVars, rayQuery, drawVars, colourVars, boxQuery, sample, mtl>>

----------------------------------------------------------------------------
\* Reading the tree.

Octants == 0 .. (octant_count - 1)

ChildrenOf(n) == MapGetOr(octant_child_map, n, <<>>)

IsLeaf(n) == Len(ChildrenOf(n)) = 0

Leaves == { n \in Octants : IsLeaf(n) }

OctantBox(n) == AABBs[octant_AABB_map[n] + 1]

TriangleIndices == 0 .. (Len(triangles) - 1)

TriangleBox(t) == AABBs[triangle_aabb_map[t] + 1]

RootBox == OctantBox(0)

\* The octants reachable from the root through octant_child_map.
RECURSIVE ReachableFrom(_)
ReachableFrom(n) ==
    {n} \cup UNION { ReachableFrom(ChildrenOf(n)[i]) : i \in 1 .. Len(ChildrenOf(n)) }

\* The boxes, as point sets, have a point in common (a box with min > max on
\* some axis has no point at all).
BoxesOverlap(a, b) ==
    /\ Max2(a.min_coords.x, b.min_coords.x) <= Min2(a.max_coords.x, b.max_coords.x)
    /\ Max2(a.min_coords.y, b.min_coords.y) <= Min2(a.max_coords.y, b.max_coords.y)
    /\ Max2(a.min_coords.z, b.min_coords.z) <= Min2(a.max_coords.z, b.max_coords.z)

\* The leaves t is directly assigned to.
LeavesHolding(t) ==
    { n \in Leaves : n \in DOMAIN octant_triangle_map /\ octant_triangle_map[n] = t }

ValidBox(b) ==
    /\ b.min_coords.x <= b.max_coords.x
    /\ b.min_coords.y <= b.max_coords.y
    /\ b.min_coords.z <= b.max_coords.z

Volume(b) ==
    (b.max_coords.x - b.min_coords.x) * (b.max_coords.y - b.min_coords.y)
        * (b.max_coords.z - b.min_coords.z)

Inside(b, parent) ==
    /\ parent.min_coords.x <= b.min_coords.x /\ b.max_coords.x <= parent.max_coords.x
    /\ parent.min_coords.y <= b.min_coords.y /\ b.max_coords.y <= parent.max_coords.y
    /\ parent.min_coords.z <= b.min_coords.z /\ b.max_coords.z <= parent.max_coords.z

\* The eight boxes obtained by cutting box p at the midpoint of each axis.
MidpointOctants(p) ==
    LET xm == p.min_coords.x + (p.max_coords.x - p.min_coords.x) \div 2
        ym == p.min_coords.y + (p.max_coords.y - p.min_coords.y) \div 2
        zm == p.min_coords.z + (p.max_coords.z - p.min_coords.z) \div 2
        xs == { <<p.min_coords.x, xm>>, <<xm, p.max_coords.x>> }
        ys == { <<p.min_coords.y, ym>>, <<ym, p.max_coords.y>> }
        zs == { <<p.min_coords.z, zm>>, <<zm, p.max_coords.z>> }
    IN  { AABB_new(x[1], x[2], y[1], y[2], z[1], z[2]) : x \in xs, y \in ys, z \in zs }

ChildBoxSet(n) == { OctantBox(ChildrenOf(n)[i]) : i \in 1 .. Len(ChildrenOf(n)) }

----------------------------------------------------------------------------
\* Claims about the octree.

C7_LeafNotShared ==
    ~overflow =>
        \A n \in Leaves :
            n \in DOMAIN octant_triangle_map =>
                \A t \in TriangleIndices :
                    BoxesOverlap(TriangleBox(t), OctantBox(n)) => octant_triangle_map[n] = t

\* A subdivision has happened and two triangles sit on two different leaves.
C7_Witness ==
    /\ ~overflow
    /\ octant_count > 1
    /\ \E t1, t2 \in TriangleIndices :
          t1 # t2 /\ LeavesHolding(t1) # {} /\ LeavesHolding(t2) # {}

\* C8: after every completed push_triangle each inserted triangle is stored
\* in every overlapping subtree: every leaf whose box meets the triangle's box
\* has that triangle directly assigned.
C8_StoredInEveryOverlappingLeaf ==
    ~overflow =>
        \A t \in TriangleIndices :
            \A n \in Leaves :
                BoxesOverlap(TriangleBox(t), OctantBox(n)) => n \in LeavesHolding(t)

\* A triangle straddling an octant boundary is held by more than one leaf.
C8_Witness ==
    /\ ~overflow
    /\ \E t \in TriangleIndices : Cardinality(LeavesHolding(t)) >= 2

\* C24: after any sequence of completed push_triangle calls every directly
\* assigned triangle sits on a leaf: no octant that has children has an
\* entry in octant_triangle_map, and the box of each assigned triangle
\* intersects (AABB::intersects) the box of the leaf that holds it.
C24_AssignedTrianglesOnLeaves ==
    ~overflow =>
        \A n \in DOMAIN octant_triangle_map :
            /\ n \in Octants
            /\ IsLeaf(n)
            /\ octant_triangle_map[n] \in TriangleIndices
            /\ intersects(TriangleBox(octant_triangle_map[n]), OctantBox(n))

\* The root was subdivided and the triangle it held now sits on a leaf
\* below it, together with a second triangle on another leaf.
C24_Witness ==
    /\ ~overflow
    /\ ~IsLeaf(0)
    /\ \E n, m \in Leaves :
          /\ n # m
          /\ n \in DOMAIN octant_triangle_map /\ octant_triangle_map[n] = 0
          /\ m \in DOMAIN octant_triangle_map /\ octant_triangle_map[m] # 0

\* C25: after any sequence of completed push_triangle calls the arena
\* bookkeeping is consistent: octant_count = 1 + 8 * (number of
\* subdivisions); octant_AABB_map has exactly the keys 0 .. octant_count - 1,
\* each mapping to a distinct valid index of AABBs; every octant with
\* children has exactly 8 distinct child indices below octant_count;
\* AABBs.len() = octant_count + triangles.len(); and triangle_aabb_map[i] is
\* the index of the box from_triangle(triangles[i]) for every triangle i.
C25_ArenaConsistent ==
    ~overflow =>
        /\ octant_count = 1 + 8 * Cardinality(DOMAIN octant_child_map)
        /\ DOMAIN octant_AABB_map = 0 .. (octant_count - 1)
        /\ \A n \in DOMAIN octant_AABB_map :
               /\ octant_AABB_map[n] \in 0 .. (Len(AABBs) - 1)
               /\ \A m \in DOMAIN octant_AABB_map :
                      octant_AABB_map[m] = octant_AABB_map[n] => m = n
        /\ \A n \in DOMAIN octant_child_map :
               /\ n \in Octants
               /\ Len(octant_child_map[n]) = 8
               /\ \A i, j \in 1..8 :
                      octant_child_map[n][i] = octant_child_map[n][j] => i = j
               /\ \A i \in 1..8 : octant_child_map[n][i] \in Octants
        /\ Len(AABBs) = octant_count + Len(triangles)
        /\ DOMAIN triangle_aabb_map = TriangleIndices
        /\ \A i \in TriangleIndices :
               /\ triangle_aabb_map[i] \in 0 .. (Len(AABBs) - 1)
               /\ AABBs[triangle_aabb_map[i] + 1] = from_triangle(triangles[i + 1])

\* Three triangles have been pushed and at least two octants subdivided.
C25_Witness ==
    /\ ~overflow
    /\ Len(triangles) = MaxTriangles
    /\ Cardinality(DOMAIN octant_child_map) >= 2

\* C26: push_triangle terminates for every finite sequence of triangles
\* inside the root bounds, including triangles whose bounding boxes
\* intersect each other: when every triangle pushed lies inside the root
\* box, the recursion through push_at_octant and subdivide never goes on
\* past every depth.
C26_PushTerminates ==
    (\A t \in TriangleIndices : Inside(TriangleBox(t), RootBox)) => ~overflow

\* C27: push_triangle of a triangle whose bounding box does not intersect
\* the root box leaves the tree unchanged: octant_count, octant_child_map,
\* octant_triangle_map and octant_AABB_map are as before the call, and only
\* the flat stores grow: triangles, AABBs and triangle_aabb_map each gain
\* one entry.
C27_PushOutsideRootLeavesTree ==
    [][ ( /\ Len(triangles') = Len(triangles) + 1
          /\ ~BoxesOverlap(from_triangle(triangles'[Len(triangles')]), RootBox) )
        => ( /\ octant_count' = octant_count
             /\ octant_child_map' = octant_child_map
             /\ octant_triangle_map' = octant_triangle_map
             /\ octant_AABB_map' = octant_AABB_map
             /\ ~overflow'
             /\ SubSeq(triangles', 1, Len(triangles)) = triangles
             /\ Len(AABBs') = Len(AABBs) + 1
             /\ SubSeq(AABBs', 1, Len(AABBs)) = AABBs
             /\ DOMAIN triangle_aabb_map' = (DOMAIN triangle_aabb_map) \cup {Len(triangles)}
             /\ \A i \in DOMAIN triangle_aabb_map :
                    triangle_aabb_map'[i] = triangle_aabb_map[i] ) ]_vars

\* The last triangle pushed lies outside the root box, and the tree it was
\* pushed into had already been subdivided.
C27_Witness ==
    /\ ~overflow
    /\ octant_count > 1
    /\ Len(triangles) = MaxTriangles
    /\ ~BoxesOverlap(TriangleBox(Len(triangles) - 1), RootBox)

\* C9: every subdivided octant has exactly 8 children, cut at the midpoint of
\* each axis: equal volumes, inside the parent, together the parent box.
C9_SubdivideSplitsAtMidpoints ==
    ~overflow =>
        \A n \in Octants :
            ~IsLeaf(n) =>
                /\ Len(ChildrenOf(n)) = 8
                /\ ChildBoxSet(n) = MidpointOctants(OctantBox(n))
                /\ \A b \in ChildBoxSet(n) : Inside(b, OctantBox(n))
                /\ \A b1, b2 \in ChildBoxSet(n) : Volume(b1) = Volume(b2)

\* C10: every stored AABB has min <= max on each axis.
C10_AllBoxesValid ==
    ~overflow => \A i \in 1 .. Len(AABBs) : ValidBox(AABBs[i])


\* C11: one triangle whose box intersects the root, pushed into a fresh
\* octree, stays at the root and nothing is subdivided: octant_count is 1,
\* node 0 has no children, octant_triangle_map is {0 -> 0}, octant_AABB_map
\* is {0 -> 0} and triangle_aabb_map is {0 -> 1}.
C11_FirstTriangleStaysAtRoot ==
    (Len(triangles) = 1 /\ intersects(from_triangle(triangles[1]), RootBox)) =>
        /\ ~overflow
        /\ octant_count = 1
        /\ 0 \notin DOMAIN octant_child_map
        /\ octant_triangle_map = MapInsert(EmptyMap, 0, 0)
        /\ octant_AABB_map = MapInsert(EmptyMap, 0, 0)
        /\ triangle_aabb_map = MapInsert(EmptyMap, 0, 1)

\* The first triangle has been pushed and its box intersects the root.
C11_Witness ==
    /\ Len(triangles) = 1
    /\ intersects(from_triangle(triangles[1]), RootBox)
    /\ 0 \in DOMAIN octant_triangle_map

\* Two triangles have been pushed, their boxes intersect the root and not
\* each other.
TwoSeparateTriangles ==
    /\ Len(triangles) = 2
    /\ intersects(from_triangle(triangles[1]), RootBox)
    /\ intersects(from_triangle(triangles[2]), RootBox)
    /\ ~intersects(from_triangle(triangles[1]), from_triangle(triangles[2]))

----------------------------------------------------------------------------
\* Claims about the ray queries.

\* The hits of a ray on all triangles of the octree, one by one.
AllHits(ray) ==
    { h \in { intersect_with_triangle(ray, triangles[i + 1], i) : i \in TriangleIndices } :
          h.some }

\* C2: intersect_with_octant(octree, 0) returns the nearest hit: None exactly
\* when no triangle is hit, otherwise a hit whose t is the minimum t over all
\* triangles of the octree.
C2_NearestHitMatchesLinearScan ==
    (rayQuery.made /\ rayQuery.max_t = INFINITY) =>
        LET hits == AllHits(rayQuery.ray)
            res == rayQuery.result
        IN  /\ res.some <=> hits # {}
            /\ res.some => /\ \E h \in hits : FEq(h.t, res.t)
                           /\ \A h \in hits : ~FLt(h.t, res.t)

\* C16: the shadow query for a Point light reports the light blocked exactly
\* when some triangle is hit by the shadow ray closer than the light, that
\* is at a ray parameter below 1, the light's own; a triangle beyond the
\* light never blocks, one between point and light always does.
C16_BlockedIffTriangleBeforeLight ==
    (rayQuery.made /\ rayQuery.max_t # INFINITY) =>
        (~rayQuery.light_hits_point
            <=> \E h \in AllHits(rayQuery.ray) : FLt(h.t, IntNum(1)))

\* C28: every hit returned by intersect_with_octant_with_max_t(octree, 0,
\* max_t) has t strictly below max_t, although the child octants are
\* searched with an infinite bound; when every triangle the ray hits is at
\* distance max_t or more, the result is None.
C28_HitBelowMaxT ==
    (rayQuery.made /\ rayQuery.max_t # INFINITY) =>
        /\ rayQuery.result.some => FLt(rayQuery.result.t, rayQuery.max_t)
        /\ (\A h \in AllHits(rayQuery.ray) : ~FLt(h.t, rayQuery.max_t))
               => ~rayQuery.result.some

\* A query with a finite max_t of a subdivided octree whose ray hits
\* triangles, all of them at max_t or beyond, has been made.
C28_Witness ==
    /\ rayQuery.made
    /\ rayQuery.max_t # INFINITY
    /\ octant_count > 1
    /\ AllHits(rayQuery.ray) # {}
    /\ \A h \in AllHits(rayQuery.ray) : ~FLt(h.t, rayQuery.max_t)
    /\ ~rayQuery.result.some

----------------------------------------------------------------------------
\* Claims about draw_scene.

Cells == 0 .. (canvas.width * canvas.height - 1)

\* How many received results put_pixel wrote to cell i.
WritesTo(i) ==
    Cardinality({ p \in received : put_pixel_index(canvas, p[1], p[2]) = i })

\* The received results put_pixel returned on without writing.
Discarded == { p \in received : put_pixel_index(canvas, p[1], p[2]) = -1 }

\* C3: when draw_scene returns, every one of the width*height cells has been
\* written exactly once and put_pixel discarded no received result.
C3_EveryCellWrittenOnce ==
    pc = "done" =>
        /\ \A i \in Cells : WritesTo(i) = 1
        /\ Discarded = {}

\* C4: draw_scene returns only after every submitted task ran to completion
\* and its result was received and written: at the return the results
\* consumed are as many as the tasks submitted and the framebuffer is fully
\* populated.
C4_ReturnsAfterAllResults ==
    pc = "done" =>
        /\ ctr = submitted
        /\ \A i \in Cells : WritesTo(i) >= 1

\* The framebuffer of the run in which the results arrive in the order the
\* tasks were submitted.
RECURSIVE InOrderBuffer(_, _)
InOrderBuffer(buf, i) ==
    IF i > Len(TaskList(canvas)) THEN buf
    ELSE LET p == TaskList(canvas)[i]
         IN  InOrderBuffer(IF p \in faulty THEN buf
                           ELSE put_pixel(buf, canvas, p[1], p[2], PixelColour(p[1], p[2])),
                           i + 1)

\* C5: the final framebuffer is the same for every interleaving of the
\* workers and every arrival order: whatever the run, it ends with the
\* framebuffer of the run whose results arrive in submission order.
C5_FinalBufferIndependentOfOrder ==
    pc = "done" => buffer = InOrderBuffer([i \in Cells |-> 0], 1)

\* draw_scene has returned from a run in which results arrived out of
\* submission order and at least two cells were written.
C5_Witness ==
    /\ pc = "done"
    /\ canvas.width > 0
    /\ reordered
    /\ Cardinality({ i \in Cells : buffer[i] # 0 }) >= 2

\* C18: a panic in one pixel task is fatal to the whole render: draw_scene
\* never returns normally from a run in which the trace of some task
\* panicked before sending its result.
C18_PanicIsFatal ==
    pc = "done" => faulty = {}

\* C19: for every canvas width and height, even or odd, draw_scene submits
\* exactly width * height tasks, and each task sends exactly one result: at
\* the return the tasks submitted are width * height and the results taken
\* from the channel are as many.
C19_OneTaskPerPixel ==
    pc = "done" =>
        /\ submitted = canvas.width * canvas.height
        /\ ctr = submitted

----------------------------------------------------------------------------
\* Claims about AABB::intersects.

Axes == {"x", "y", "z"}

\* The coordinates box b covers on an axis.  Box corners are integers of
\* Coords, so two boxes share a point of an axis exactly when they share one
\* of these.
AxisRange(b, axis) ==
    { v \in Coords : b.min_coords[axis] <= v /\ v <= b.max_coords[axis] }

DisjointOnSomeAxis(a, b) ==
    \E axis \in Axes : AxisRange(a, axis) \cap AxisRange(b, axis) = {}

\* C20: AABB::intersects is symmetric, A.intersects(B) = B.intersects(A)
\* for all boxes A and B over the coordinate set, and it is false exactly
\* when the boxes are disjoint on at least one axis, so boxes that only
\* touch on a face intersect.
C20_IntersectsSymmetric ==
    boxQuery.made =>
        /\ boxQuery.result = boxQuery.reverse
        /\ boxQuery.result = ~DisjointOnSomeAxis(boxQuery.self, boxQuery.other)

\* Two boxes of positive volume that share only a face x = const have been
\* tested and found to intersect.
C20_Witness ==
    /\ boxQuery.made
    /\ boxQuery.result
    /\ Volume(boxQuery.self) > 0
    /\ Volume(boxQuery.other) > 0
    /\ boxQuery.self.max_coords.x = boxQuery.other.min_coords.x

Vertices(triangle) == {triangle.v1, triangle.v2, triangle.v3}

\* C21: for every triangle T the box from_triangle(T) contains the three
\* vertices of T, min <= vertex coordinate <= max on each axis, and on each
\* axis its min and max are the minimum and the maximum of the three vertex
\* coordinates (each is attained by a vertex).
C21_FromTriangleContainsVertices ==
    boxQuery.made =>
        \A axis \in Axes :
            /\ \A v \in Vertices(boxQuery.triangle) :
                   /\ boxQuery.box.min_coords[axis] <= v[axis]
                   /\ v[axis] <= boxQuery.box.max_coords[axis]
            /\ \E v \in Vertices(boxQuery.triangle) : v[axis] = boxQuery.box.min_coords[axis]
            /\ \E v \in Vertices(boxQuery.triangle) : v[axis] = boxQuery.box.max_coords[axis]

\* The box of a triangle whose third vertex alone is lowest on z and whose
\* second vertex alone is highest on x has been built.
C21_Witness ==
    /\ boxQuery.made
    /\ boxQuery.triangle.v3.z < boxQuery.triangle.v1.z
    /\ boxQuery.triangle.v3.z < boxQuery.triangle.v2.z
    /\ boxQuery.triangle.v2.x > boxQuery.triangle.v1.x
    /\ boxQuery.triangle.v2.x > boxQuery.triangle.v3.x

----------------------------------------------------------------------------
\* Claims about Ray::intersect_aabb.

StrictlyInside(p, b) ==
    \A axis \in Axes : b.min_coords[axis] < p[axis] /\ p[axis] < b.max_coords[axis]

Corners(b) ==
    { Vec3(x, y, z) : x \in {b.min_coords.x, b.max_coords.x},
                      y \in {b.min_coords.y, b.max_coords.y},
                      z \in {b.min_coords.z, b.max_coords.z} }

\* The ray points away from the box and the box lies entirely behind the
\* origin: every point of the box is at a negative offset along the
\* direction.
EntirelyBehind(ray, b) ==
    \A c \in Corners(b) : dot(Sub(c, ray.origin), ray.direction) < 0

\* C22: intersect_aabb returns Some with a nonnegative distance, the exit
\* distance tmax, for every ray whose origin lies strictly inside the box;
\* it returns None for every ray pointing away from a box entirely behind
\* its origin, for which tmax < 0; and it returns None whenever tmin > tmax.
C22_IntersectAabbSelfConsistent ==
    rayQuery.made =>
        LET ray == rayQuery.ray
            aabb == rayQuery.aabb
            res == rayQuery.result
        IN  /\ StrictlyInside(ray.origin, aabb) =>
                   /\ res.some
                   /\ ~FLt(res.t, IntNum(0))
                   /\ FEq(res.t, slab_tmax(ray, aabb))
            /\ EntirelyBehind(ray, aabb) =>
                   /\ FLt(slab_tmax(ray, aabb), IntNum(0))
                   /\ ~res.some
            /\ FLt(slab_tmax(ray, aabb), slab_tmin(ray, aabb)) => ~res.some

\* A ray starting strictly inside a box, with a zero direction component,
\* has been tested against it.
C22_Witness ==
    /\ rayQuery.made
    /\ StrictlyInside(rayQuery.ray.origin, rayQuery.aabb)
    /\ rayQuery.ray.direction.y = 0
    /\ rayQuery.result.some

----------------------------------------------------------------------------
\* Claims about Ray::intersect_with_triangle.

\* The normal edge1 x edge2 of a triangle; it is zero for a zero-area one.
TriangleNormal(triangle) ==
    cross(Sub(triangle.v2, triangle.v1), Sub(triangle.v3, triangle.v1))

ZeroArea(triangle) == TriangleNormal(triangle) = Vec3(0, 0, 0)

ParallelTo(ray, triangle) == dot(ray.direction, TriangleNormal(triangle)) = 0

\* a + b <= 1 for two rationals.
SumAtMostOne(a, b) == a.n * b.d + b.n * a.d <= a.d * b.d

\* C23: every result of intersect_with_triangle has t > epsilon (t > 0 on
\* the integer grid), 0 <= u <= 1, v >= 0 and u + v <= 1; a ray parallel to
\* the triangle, or a zero-area triangle, yields None.
C23_TriangleHitInsideTriangle ==
    rayQuery.made =>
        LET res == rayQuery.result
        IN  /\ res.some =>
                   /\ FLt(IntNum(0), res.t)
                   /\ ~FLt(res.u, IntNum(0))
                   /\ ~FLt(IntNum(1), res.u)
                   /\ ~FLt(res.v, IntNum(0))
                   /\ SumAtMostOne(res.u, res.v)
                   /\ ~IsNaN(res.t) /\ ~IsNaN(res.u) /\ ~IsNaN(res.v)
            /\ (ZeroArea(rayQuery.triangle) \/ ParallelTo(rayQuery.ray, rayQuery.triangle))
                   => ~res.some

\* A ray has hit a triangle on its hypotenuse: u > 0, v > 0 and u + v = 1.
C23_Witness ==
    /\ rayQuery.made
    /\ rayQuery.result.some
    /\ rayQuery.result.u.n > 0
    /\ rayQuery.result.v.n > 0
    /\ rayQuery.result.u.n + rayQuery.result.v.n = rayQuery.result.u.d

----------------------------------------------------------------------------
\* Claims about texture sampling.

\* C29: texture sampling never indexes out of range: for every hit the
\* wrapped indices satisfy tex_x_index < texture.width and tex_y_index <
\* texture.height, and when the material has a bump map the index
\* bump_map.width * tex_y_index + tex_x_index is below bump_map.width *
\* bump_map.height, also when the bump map's dimensions differ from the
\* base texture's.
C29_TextureIndexInRange ==
    sample.made =>
        /\ sample.tex_x_index < sample.tex.width
        /\ sample.tex_y_index < sample.tex.height
        /\ sample.colour_index < ColoursLen(sample.tex)
        /\ sample.bump_map.some =>
               sample.bump_index < sample.bump_map.width * sample.bump_map.height
        /\ ~sample.panicked

----------------------------------------------------------------------------
\* Claims about parse_mtl_file_lines.

\* C30: each material emitted at a newmtl or at the end of input takes its
\* attributes only from its own block: an attribute (Ka, Kd, Ks, Ns,
\* map_Ka, bump) not declared between the material's newmtl and the next
\* one has the default (zero coefficient, Ns 240, no bump map) and never
\* the value declared for an earlier material.
C30_AttributesFromOwnBlock ==
    mtl.phase # "idle" =>
        \A i \in 1..Len(mtl.emitted) :
            \A a \in MtlAttrs :
                mtl.emitted[i].own[a] = 0 =>
                    mtl.emitted[i].material.attrs[a] = MtlDefault(a)

----------------------------------------------------------------------------
\* Claims about get_ray_colour.

\* C6: get_ray_colour terminates.  The frames on the stack have depths
\* 0, 1, 2, ... and none exceeds MAX_REFLECTION_DEPTH, so a reflective hit
\* below the maximum recursed with depth + 1 and a hit at the maximum
\* returned its local colour without recursing; a ray that only ever hits
\* reflective surfaces makes exactly MAX_REFLECTION_DEPTH bounces; and a call
\* that has started returns.
C6_DepthInv ==
    /\ Len(rcStack) <= MAX_REFLECTION_DEPTH + 1
    /\ \A i \in 1..Len(rcStack) : rcStack[i].depth = i - 1
    /\ rcBounces <= MAX_REFLECTION_DEPTH
    /\ (rcPhase = "done" /\ rcAllMirror) => rcBounces = MAX_REFLECTION_DEPTH

C6_ReflectionTerminates ==
    /\ []C6_DepthInv
    /\ (rcPhase = "running") ~> (rcPhase = "done")

\* A call whose every ray hit a reflective surface has returned.
C6_Witness ==
    /\ rcPhase = "done"
    /\ rcAllMirror
    /\ rcBounces = MAX_REFLECTION_DEPTH

\* C17: whenever the octree query of a frame finds no hit, at any recursion
\* depth, the frame hands back white (255 on the channel) at once: a primary
\* ray makes get_ray_colour return 255, a reflected ray gives 255 to the
\* frame that cast it, which is then the innermost frame (no further call
\* was made), and the value is always a colour.
C17_MissReturnsWhite ==
    rcMissed =>
        IF rcStack = <<>>
        THEN rcPhase = "done" /\ rcResult = 255
        ELSE /\ rcPhase = "running"
             /\ rcStack[Len(rcStack)].at = "blend"
             /\ rcStack[Len(rcStack)].reflected = 255

\* A reflected ray cast at the maximum depth has just missed.
C17_Witness ==
    /\ rcMissed
    /\ Len(rcStack) = MAX_REFLECTION_DEPTH

----------------------------------------------------------------------------
\* Claims about compute_lighting_intensity.

\* What the light at position k added to the returned intensity, in units
\* of its own intensity: 3 for an ambient term, 1 for a diffuse term, 2 for
\* a specular term, 1 + 2 for both.
TermOf(k) == (lighting.i \div Intensity(k)) % 4

\* C13: a Point light for which the shadow query finds a blocking triangle
\* adds neither a diffuse nor a specular term to the result.
C13_BlockedPointLightAddsNothing ==
    lighting.made =>
        \A k \in 1..Len(lights) :
            (lights[k].kind = "Point" /\ lights[k].blocked) => TermOf(k) = 0

\* The result was computed for a list holding a blocked Point light that
\* faces the surface, after a light that did add its term.
C13_Witness ==
    /\ lighting.made
    /\ \E k \in 2..Len(lights) :
          /\ lights[k].kind = "Point" /\ lights[k].blocked /\ lights[k].n_dot_l = 1
          /\ TermOf(k - 1) # 0

\* C14: every Ambient light of the list adds ambient_color_coefficient *
\* intensity to the result, whatever the order of the lights and whatever
\* the shadow queries of the other lights find.
C14_EveryAmbientLightAdded ==
    lighting.made =>
        \A k \in 1..Len(lights) :
            lights[k].kind = "Ambient" => TermOf(k) = ambient_color_coefficient

\* C15: a Directional light adds its diffuse and specular terms only if no
\* triangle blocks the shadow ray toward it; a blocked one adds nothing.
C15_BlockedDirectionalLightAddsNothing ==
    lighting.made =>
        \A k \in 1..Len(lights) :
            (lights[k].kind = "Directional" /\ lights[k].blocked) => TermOf(k) = 0

----------------------------------------------------------------------------
\* Specifications.

\* The octree under push_triangle calls, for any of the offered root bounds.
Init == OctreeInitWith(RootBounds) /\ rayQuery = NoQuery /\ boxQuery = NoQuery /\ sample = NoQuery /\ mtl = MtlIdle /\ DrawIdle /\ ColourIdle /\ LightIdle

Next == PushTriangle

Spec == Init /\ [][Next]_vars

\* A scene built in the loader's root box, then queried by rays.
RayInit == OctreeInitWith(SceneRootBounds) /\ rayQuery = NoQuery /\ boxQuery = NoQuery /\ sample = NoQuery /\ mtl = MtlIdle /\ DrawIdle /\ ColourIdle /\ LightIdle

RayNext == PushSceneTriangle \/ CastRay

RaySpec == RayInit /\ [][RayNext]_vars

\* A scene is built, then shadow queries are made of it.
ShadowNext == PushSceneTriangle \/ ShadowQuery

ShadowSpec == RayInit /\ [][ShadowNext]_vars

\* One draw_scene call: the main thread and the pool's workers interleave.
DrawSpecInit == OctreeInitWith(SceneRootBounds) /\ rayQuery = NoQuery /\ boxQuery = NoQuery /\ sample = NoQuery /\ mtl = MtlIdle /\ DrawInit /\ ColourIdle /\ LightIdle

DrawNext == Submit \/ DropTx \/ StartTask \/ FinishTask \/ PanicTask \/ Receive \/ Return

DrawSpec == DrawSpecInit /\ [][DrawNext]_vars

\* One get_ray_colour call.  The call runs on one thread and nothing stops
\* it, so a step that can be taken is taken.
ColourInit == OctreeInitWith(SceneRootBounds) /\ rayQuery = NoQuery /\ boxQuery = NoQuery /\ sample = NoQuery /\ mtl = MtlIdle /\ DrawIdle /\ ColourIdle /\ LightIdle

ColourNext == get_ray_colour \/ TraceMiss \/ TraceHit \/ BlendReflection

ColourSpec == ColourInit /\ [][ColourNext]_vars /\ WF_vars(ColourNext)

\* Ray::intersect_aabb applied to rays and boxes.
AabbRayNext == IntersectAabb

AabbRaySpec == RayInit /\ [][AabbRayNext]_vars

\* Ray::intersect_with_triangle applied to rays and triangles.
TriRayNext == IntersectTriangle

TriRaySpec == RayInit /\ [][TriRayNext]_vars

\* Hits shaded with every pair of base texture and bump map.
SampleNext == SampleTexture

SampleSpec == RayInit /\ [][SampleNext]_vars

\* parse_mtl_file_lines reading files of up to MaxMtlLines lines.
MtlInit ==
    /\ OctreeInitWith(SceneRootBounds) /\ rayQuery = NoQuery /\ boxQuery = NoQuery
    /\ sample = NoQuery /\ mtl = MtlStart /\ DrawIdle /\ ColourIdle /\ LightIdle

MtlNext == ParseMtlLine \/ ParseMtlEnd

MtlSpec == MtlInit /\ [][MtlNext]_vars

\* AABB::intersects applied to every pair of boxes.
BoxInit ==
    OctreeInitWith(SceneRootBounds) /\ rayQuery = NoQuery /\ boxQuery = NoQuery /\ sample = NoQuery /\ mtl = MtlIdle /\ DrawIdle /\ ColourIdle /\ LightIdle

BoxNext == IntersectBoxes

BoxSpec == BoxInit /\ [][BoxNext]_vars

\* AABB::from_triangle applied to every triangle.
TriBoxNext == BoxFromTriangle

TriBoxSpec == BoxInit /\ [][TriBoxNext]_vars

\* compute_lighting_intensity applied to the light lists of up to MaxLights
\* lights.
LightingInit ==
    OctreeInitWith(SceneRootBounds) /\ rayQuery = NoQuery /\ boxQuery = NoQuery /\ sample = NoQuery /\ mtl = MtlIdle /\ DrawIdle /\ ColourIdle /\ LightInit

LightingNext == ComputeLighting

LightingSpec == LightingInit /\ [][LightingNext]_vars

====
